---- MODULE Spec2Model ----
(***************************************************************************)
(* Model of the ZeroFrame WebSocket client (src/src/index.js): connection  *)
(* lifecycle, outbound queue, correlation table, inbound dispatcher and    *)
(* reconnect controller of one ZeroFrame instance.                         *)
(*                                                                         *)
(* The transport (isomorphic-ws) is the environment: a socket is           *)
(* "connecting", then "open", then "closed"; it delivers its opened,       *)
(* error, closed and message events one at a time (single-threaded event   *)
(* loop), and its state changes together with the delivery of the event.   *)
(***************************************************************************)
EXTENDS Integers, Sequences, FiniteSets, TLC

(* ---------------------------- bounds ---------------------------------- *)

\* Outbound messages (API calls, hook sends and ping replies) per session.
MaxMessages == 2
\* Transport connections created per session (the initial one included).
MaxSockets == 2
\* Arguments of one call through the proxy.
MaxArgs == 2

(* ------------------------ program constants --------------------------- *)

CMD_RESPONSE == "response"
CMD_PING == "ping"
CMD_PONG == "pong"

\* ZeroFrame.constructorOptions.reconnect.attempts
DefaultAttempts == -1
\* this.nextMessageId = 1, this.nextAttemptId = 1
FirstMessageId == 1
FirstAttemptId == 1

(* --------------------------- input sets ------------------------------- *)

\* reconnect.attempts given to the constructor
AttemptsChoices == {DefaultAttempts, 0, 1}
\* identifiers the peer puts on its pings
PingIds == {7}
\* identifiers of the peer's requests, which the application answers
RequestIds == {8}
\* command names: one API command, one command pushed by the server
ApiCmd == "siteInfo"
PeerCmd == "setSiteInfo"

\* JSON values of a response's result, written as their JSON text
JNull == "null"
JOk == "\"ok\""
JErrDenied == "{\"error\":\"denied\"}"
JErrEmpty == "{\"error\":\"\"}"
JAbsent == "undefined"
Results == {JNull, JOk, JErrDenied, JErrEmpty}

\* the value has an own property "error"
HasErrorField(v) == v \in {JErrDenied, JErrEmpty}
\* v.error, for a value that has the property
ErrorOf(v) == IF v = JErrDenied THEN "\"denied\"" ELSE IF v = JErrEmpty THEN "\"\"" ELSE JAbsent
\* JavaScript truthiness of the values used here
Truthy(v) == v \notin {JNull, JAbsent, "\"\""}

\* JavaScript values passed as command parameters and proxy arguments:
\* their type, their JSON text and, for an array, its elements
JsUndefined == [type |-> "undefined", text |-> "undefined", items |-> <<>>]
JsNull == [type |-> "null", text |-> "null", items |-> <<>>]
JsEmptyObject == [type |-> "object", text |-> "{}", items |-> <<>>]
JsKeywords == [type |-> "object", text |-> "{\"inner_path\":\"a\"}", items |-> <<>>]
JsString == [type |-> "string", text |-> "\"a\"", items |-> <<>>]
JsArray(items) == [type |-> "array", text |-> "", items |-> items]

\* typeof v
TypeOf(v) == IF v.type \in {"null", "object", "array"} THEN "object" ELSE v.type

\* arguments a caller passes through the proxy, and the argument lists
ArgValues == {JsUndefined, JsNull, JsKeywords, JsString, JsArray(<<JsString>>)}
ArgLists == UNION {[1..n -> ArgValues] : n \in 0..MaxArgs}
\* property names read from the proxy
ProxyNames == {"siteInfo", "fileGet"}

\* the wrapper key the server embeds in the page
WrapperKeys == {"key"}
NoKey == "undefined"

\* callbacks given to _send: none (null), or the closure cmdp passes to cmd
\* (a callback the application passes to cmd itself takes the same path)
NoCb == "none"
PromiseCb == "promise"
Callbacks == {NoCb, PromiseCb}

(* ----------------------------- state ---------------------------------- *)

VARIABLES
  attempts,            \* this.reconnect.attempts
  proxyInput,          \* the call the application makes through this.proxy: [name, args]
  keyState,            \* _connect's progress: "fetching", "done", "failed"
  fetches,             \* HTTP requests for the wrapper key issued so far
  wrapperKey,          \* this.wrapperKey
  socketKeys,          \* the wrapper_key in the URL of each socket, by creation order
  sockets,             \* every WebSocket created so far, by creation order: its state
  websocket,           \* this.websocket: index into sockets, 0 = undefined
  timers,              \* pending setTimeout callbacks of _onCloseWebsocket
  websocketConnected,  \* this.websocketConnected
  waitingCallbacks,    \* this.waitingCallbacks: id -> callback
  waitingMessages,     \* this.waitingMessages: <<[msg, processed]>>
  nextMessageId,       \* this.nextMessageId
  nextAttemptId,       \* this.nextAttemptId
  wire,                \* frames handed to websocket.send, in order
  calls,               \* the _send calls, in order: <<[msg (with its id), cb]>>
  cbCalls,             \* id -> number of invocations of the callback registered for id
  futures,             \* id -> the promise returned by cmdp for the command id
  hookCalls,           \* hooks invoked while handling the last event, in order
  event                \* the event handled last: its type, the frame's id/to and result

vars == <<attempts, proxyInput, keyState, fetches, wrapperKey, socketKeys, sockets, websocket, timers, websocketConnected,
          waitingCallbacks, waitingMessages, nextMessageId, nextAttemptId,
          wire, calls, cbCalls, futures, hookCalls, event>>

\* The instance's fields as one record, for the handlers' sequential code.
Self ==
  [fetches |-> fetches, wrapperKey |-> wrapperKey, socketKeys |-> socketKeys,
   sockets |-> sockets, websocket |-> websocket, timers |-> timers,
   websocketConnected |-> websocketConnected,
   waitingCallbacks |-> waitingCallbacks, waitingMessages |-> waitingMessages,
   nextMessageId |-> nextMessageId, nextAttemptId |-> nextAttemptId,
   wire |-> wire, calls |-> calls, cbCalls |-> cbCalls, futures |-> futures,
   hookCalls |-> hookCalls]

Commit(s) ==
  /\ fetches' = s.fetches
  /\ wrapperKey' = s.wrapperKey
  /\ socketKeys' = s.socketKeys
  /\ sockets' = s.sockets
  /\ websocket' = s.websocket
  /\ timers' = s.timers
  /\ websocketConnected' = s.websocketConnected
  /\ waitingCallbacks' = s.waitingCallbacks
  /\ waitingMessages' = s.waitingMessages
  /\ nextMessageId' = s.nextMessageId
  /\ nextAttemptId' = s.nextAttemptId
  /\ wire' = s.wire
  /\ calls' = s.calls
  /\ cbCalls' = s.cbCalls
  /\ futures' = s.futures
  /\ hookCalls' = s.hookCalls

\* f with key k bound to v (an object property assignment)
Put(f, k, v) == [x \in DOMAIN f \cup {k} |-> IF x = k THEN v ELSE f[x]]
\* f without key k (delete f[k])
Remove(f, k) == [x \in DOMAIN f \ {k} |-> f[x]]
Empty == [x \in {} |-> 0]

(* ---------------------------- messages -------------------------------- *)

\* cmd(): { cmd, params }, no id yet (id 0 stands for the missing property)
CmdMessageWith(cmd, params) ==
  [id |-> 0, cmd |-> cmd, params |-> params, to |-> 0, result |-> JAbsent]
CmdMessage(cmd) == CmdMessageWith(cmd, JsEmptyObject)
\* response(): { cmd: 'response', to, result }
ResponseMessage(to, result) ==
  [id |-> 0, cmd |-> CMD_RESPONSE, params |-> JsUndefined, to |-> to, result |-> result]

\* websocket.send(JSON.stringify(message)) on this.websocket: the frame, the
\* socket it is given to and the state that socket is in
Transmit(s, message) ==
  [s EXCEPT !.wire = Append(@, [msg |-> message, sock |-> s.websocket,
                                state |-> IF s.websocket = 0 THEN "none"
                                          ELSE s.sockets[s.websocket]])]

(* ------------------------------ _send --------------------------------- *)

\* the counter is not advanced
NextId_Stuck(n) == n

NextId(n) == n + 1

\* the connected flag is not consulted
SendNow_Always(connected) == TRUE

SendNow(connected) == connected

Register(callbacks, id, cb) == Put(callbacks, id, cb)

_send(s, message, cb) ==
  LET fresh == message.id = 0
      m == IF fresh THEN [message EXCEPT !.id = s.nextMessageId] ELSE message
      s1 == [s EXCEPT !.nextMessageId = IF fresh THEN NextId(@) ELSE @,
                      !.calls = Append(@, [msg |-> m, cb |-> cb])]
      s2 == IF SendNow(s1.websocketConnected)
            THEN Transmit(s1, m)
            ELSE [s1 EXCEPT !.waitingMessages = Append(@, [msg |-> m, processed |-> FALSE])]
  IN IF cb # NoCb
     THEN [s2 EXCEPT !.waitingCallbacks = Register(@, m.id, cb),
                     !.cbCalls = IF m.id \in DOMAIN @ THEN @ ELSE Put(@, m.id, 0),
                     !.futures = IF cb = PromiseCb /\ m.id \notin DOMAIN @
                                 THEN Put(@, m.id, [state |-> "pending", value |-> JAbsent])
                                 ELSE @]
     ELSE s2

\* a default parameter value: params = {}
DefaultParams(params) == IF params = JsUndefined THEN JsEmptyObject ELSE params

\* cmd(cmd, params = {}, cb = null)
cmdWith(s, name, params, cb) == _send(s, CmdMessageWith(name, DefaultParams(params)), cb)

\* cmd called without params
cmd(s, name, cb) == _send(s, CmdMessage(name), cb)

response(s, to, result) == _send(s, ResponseMessage(to, result), NoCb)

(* ------------------------------ cmdp ---------------------------------- *)

\* The closure cmdp passes to cmd, applied to the promise p: reject with
\* response.error when (response && response.error), resolve otherwise.
\* A promise already settled ignores later resolve/reject calls.
\* the error check is left out: every response resolves
Settle_NoReject(p, r) ==
  IF p.state # "pending" THEN p ELSE [state |-> "resolved", value |-> r]

Settle(p, r) ==
  IF p.state # "pending" THEN p
  ELSE IF Truthy(r) /\ Truthy(ErrorOf(r))
       THEN [state |-> "rejected", value |-> ErrorOf(r)]
       ELSE [state |-> "resolved", value |-> r]

\* cmdp(cmd, params = {}): cmd with the closure as callback
cmdp(s, name, params) == cmdWith(s, name, DefaultParams(params), PromiseCb)

(* ------------------------------ proxy --------------------------------- *)

\* null is not told apart from an object
IsKeywordCall_NullToo(args) == Len(args) = 1 /\ TypeOf(args[1]) = "object"

\* arguments.length === 1 && typeof arguments[0] === 'object' && arguments[0] !== null
IsKeywordCall(args) ==
  Len(args) = 1 /\ TypeOf(args[1]) = "object" /\ args[1] # JsNull

\* the function the get trap returns for the property name, called with args
proxy(s, name, args) ==
  IF Len(args) = 0 THEN cmdp(s, name, JsUndefined)
  ELSE IF IsKeywordCall(args) THEN cmdp(s, name, args[1])
  ELSE cmdp(s, name, JsArray(args))

\* waitingCallbacks[id](result)
Invoke(s, id, result) ==
  [s EXCEPT !.cbCalls = Put(@, id, (IF id \in DOMAIN @ THEN @[id] ELSE 0) + 1),
            !.futures = IF s.waitingCallbacks[id] = PromiseCb /\ id \in DOMAIN @
                        THEN Put(@, id, Settle(@[id], result))
                        ELSE @]

(* ---------------------------- hooks ------------------------------------ *)

\* What an overridable hook (onOpenWebsocket, onCloseWebsocket) does: the
\* default only logs; a subclass may send a command from it.
HookChoices == {"log", "cmd"}

Hook(s, name, choice) ==
  LET s1 == [s EXCEPT !.hookCalls = Append(@, name)]
  IN IF choice = "cmd" THEN cmd(s1, ApiCmd, NoCb) ELSE s1

\* onRequest(cmd, message): the default logs 'Unknown request'
onRequest(s) == Hook(s, "onRequest", "log")

(* ---------------------------- _onRequest ------------------------------ *)

\* inbound frames: { cmd, id, to, result }
ResponseFrame(to, result) == [cmd |-> CMD_RESPONSE, id |-> 0, to |-> to, result |-> result]
PingFrame(id) == [cmd |-> CMD_PING, id |-> id, to |-> 0, result |-> JAbsent]
RequestFrame(id) == [cmd |-> PeerCmd, id |-> id, to |-> 0, result |-> JAbsent]

\* the branch _onRequest takes, from message.cmd and
\* waitingCallbacks[message.to] !== undefined
\* the two conditions of the response branch merged into one: an unmatched
\* response falls through to the application handler
Branch_FallThrough(c, has) ==
  IF c = CMD_RESPONSE /\ has THEN "callback"
  ELSE IF c = CMD_PING THEN "ping"
  ELSE "request"

Branch(c, has) ==
  IF c = CMD_RESPONSE THEN (IF has THEN "callback" ELSE "drop")
  ELSE IF c = CMD_PING THEN "ping"
  ELSE "request"

\* delete this.waitingCallbacks[message.to]
\* the delete is left out
AfterCallback_Keep(callbacks, to) == callbacks

AfterCallback(callbacks, to) == Remove(callbacks, to)

\* the reply echoes the command name instead of answering 'pong'
PongReply_Echo(s, id) == response(s, id, CMD_PING)

PongReply(s, id) == response(s, id, CMD_PONG)

_onRequest(s, message) ==
  LET b == Branch(message.cmd, message.to \in DOMAIN s.waitingCallbacks)
  IN CASE b = "callback" ->
            LET s1 == Invoke(s, message.to, message.result)
            IN [s1 EXCEPT !.waitingCallbacks = AfterCallback(@, message.to)]
       [] b = "drop" -> s
       [] b = "ping" -> PongReply(s, message.id)
       [] OTHER -> onRequest(s)

(* -------------------------- _onOpenWebsocket -------------------------- *)

\* if (!message.processed)
\* the processed flag is not consulted
ShouldFlush_All(processed) == TRUE

ShouldFlush(processed) == ~processed

\* the entry is left as it was
MarkProcessed_Skip(entry) == entry

\* message.processed = true
MarkProcessed(entry) == [entry EXCEPT !.processed = TRUE]

\* this.waitingMessages.forEach(...), from index i on
RECURSIVE FlushFrom(_, _)
FlushFrom(s, i) ==
  IF i > Len(s.waitingMessages) THEN s
  ELSE IF ShouldFlush(s.waitingMessages[i].processed)
       THEN FlushFrom([Transmit(s, s.waitingMessages[i].msg)
                         EXCEPT !.waitingMessages[i] = MarkProcessed(@)], i + 1)
       ELSE FlushFrom(s, i + 1)

\* the hook runs before the flag is set and the queue is flushed
_onOpenWebsocket_HookFirst(s, hook) ==
  LET s1 == Hook(s, "onOpenWebsocket", hook)
      s2 == [s1 EXCEPT !.websocketConnected = TRUE]
  IN FlushFrom(s2, 1)

_onOpenWebsocket(s, hook) ==
  LET s1 == [s EXCEPT !.websocketConnected = TRUE]
      s2 == FlushFrom(s1, 1)
  IN Hook(s2, "onOpenWebsocket", hook)

(* ------------------------- _onErrorWebsocket -------------------------- *)

\* an error is handled like a closure: a reconnect is scheduled
_onErrorWebsocket_Reconnect(s) ==
  [Hook(s, "onErrorWebsocket", "log") EXCEPT !.timers = @ + 1]

\* this.onErrorWebsocket(event): the default logs 'Websocket error'
_onErrorWebsocket(s) == Hook(s, "onErrorWebsocket", "log")

(* ------------------------- _onCloseWebsocket -------------------------- *)

\* the two early returns of _onCloseWebsocket, negated
\* only a positive limit is compared: 0 is treated like "no limit"
ShouldReconnect_ZeroUnlimited(a, n) == ~(a > 0 /\ n > a)

\* the limit is compared also when it is -1
ShouldReconnect_NoUnlimited(a, n) == ~(a = 0) /\ ~(n > a)

ShouldReconnect(a, n) ==
  /\ ~(a = 0)
  /\ ~(a # -1 /\ n > a)

\* the hook runs while the flag still says connected
_onCloseWebsocket_HookFirst(s, a, hook) ==
  LET s1 == Hook(s, "onCloseWebsocket", hook)
      s2 == [s1 EXCEPT !.websocketConnected = FALSE]
  IN IF ShouldReconnect(a, s2.nextAttemptId)
     THEN [s2 EXCEPT !.timers = @ + 1]
     ELSE s2

\* the callbacks of the commands in flight are dropped with the connection
_onCloseWebsocket_DropCallbacks(s, a, hook) ==
  LET s1 == [s EXCEPT !.websocketConnected = FALSE, !.waitingCallbacks = Empty]
      s2 == Hook(s1, "onCloseWebsocket", hook)
  IN IF ShouldReconnect(a, s2.nextAttemptId)
     THEN [s2 EXCEPT !.timers = @ + 1]
     ELSE s2

_onCloseWebsocket(s, a, hook) ==
  LET s1 == [s EXCEPT !.websocketConnected = FALSE]
      s2 == Hook(s1, "onCloseWebsocket", hook)
  IN IF ShouldReconnect(a, s2.nextAttemptId)
     THEN [s2 EXCEPT !.timers = @ + 1]
     ELSE s2

(* --------------------------- _getWebsocket ---------------------------- *)

\* new WebSocket(wsUrl) with the four handlers bound, assigned to this.websocket
_getWebsocket(s) ==
  [s EXCEPT !.sockets = Append(@, "connecting"), !.websocket = Len(s.sockets) + 1,
            !.socketKeys = Append(@, s.wrapperKey)]

\* _connect, once the fetch has returned a page holding the key k:
\* this.wrapperKey = k, then this.websocket = await this._getWebsocket()
_connect(s, k) == _getWebsocket([s EXCEPT !.wrapperKey = k])

\* the setTimeout callback: this.websocket = await this._getWebsocket()
\* the timer stays armed, as with setInterval
Reconnect_Repeat(s) == _getWebsocket(s)

\* the callback fetches the wrapper key again, like _connect
Reconnect_Refetch(s) ==
  _getWebsocket([s EXCEPT !.timers = @ - 1, !.fetches = @ + 1])

Reconnect(s) == _getWebsocket([s EXCEPT !.timers = @ - 1])

(* ------------------------------ actions ------------------------------- *)

CanSend == nextMessageId <= MaxMessages

\* hooks may send only while the session's message budget lasts
Hooks == IF CanSend THEN HookChoices ELSE {"log"}

Ev(type, id, result) == [type |-> type, id |-> id, result |-> result]

\* the instance as a handler or an API call finds it
Entry == [Self EXCEPT !.hookCalls = <<>>]

\* the proxy is not used
NoProxyCall == [name |-> ApiCmd, args |-> <<>>]

\* the instance after construction, reconnect.attempts being one of A
Constructed(A) ==
  /\ attempts \in A
  /\ keyState = "fetching"
  /\ fetches = 1
  /\ wrapperKey = NoKey
  /\ socketKeys = <<>>
  /\ sockets = <<>>
  /\ websocket = 0
  /\ timers = 0
  /\ websocketConnected = FALSE
  /\ waitingCallbacks = Empty
  /\ waitingMessages = <<>>
  /\ nextMessageId = FirstMessageId
  /\ nextAttemptId = FirstAttemptId
  /\ wire = <<>>
  /\ calls = <<>>
  /\ cbCalls = Empty
  /\ futures = Empty
  /\ hookCalls = <<>>
  /\ event = Ev("new", 0, JAbsent)

\* constructed without reconnect options: the default policy
Init == Constructed({DefaultAttempts}) /\ proxyInput = NoProxyCall

\* constructed with default options by an application that calls one
\* command through the proxy
ProxyInit ==
  /\ Constructed({DefaultAttempts})
  /\ proxyInput \in [name : ProxyNames, args : ArgLists]

\* constructed with any of the reconnect policies
PolicyInit == Constructed(AttemptsChoices) /\ proxyInput = NoProxyCall

\* _connect: the wrapper key arrives and the first socket is created
KeyFetched ==
  /\ keyState = "fetching"
  /\ keyState' = "done"
  /\ \E k \in WrapperKeys : Commit(_connect(Entry, k))
  /\ event' = Ev("key", 0, JAbsent)
  /\ UNCHANGED <<attempts, proxyInput>>

\* the failure is swallowed and the socket is opened without a key
KeyFailed_Continue ==
  /\ keyState = "fetching"
  /\ keyState' = "failed"
  /\ Commit(_getWebsocket(Entry))
  /\ event' = Ev("nokey", 0, JAbsent)
  /\ UNCHANGED <<attempts, proxyInput>>

\* _connect: fetch fails or the body holds no wrapper_key
KeyFailed ==
  /\ keyState = "fetching"
  /\ keyState' = "failed"
  /\ Commit(Entry)
  /\ event' = Ev("nokey", 0, JAbsent)
  /\ UNCHANGED <<attempts, proxyInput>>

\* the application calls cmd(name, params, cb) or cmdp(name, params)
CallCmd ==
  /\ CanSend
  /\ \E cb \in Callbacks : Commit(cmd(Entry, ApiCmd, cb))
  /\ event' = Ev("cmd", 0, JAbsent)
  /\ UNCHANGED <<attempts, proxyInput, keyState>>

\* the application calls response(to, result)
CallResponse ==
  /\ CanSend
  /\ \E to \in RequestIds : Commit(response(Entry, to, JOk))
  /\ event' = Ev("response", 0, JAbsent)
  /\ UNCHANGED <<attempts, proxyInput, keyState>>

\* the application calls this.proxy.<name>(...args)
CallProxy ==
  /\ CanSend
  /\ Commit(proxy(Entry, proxyInput.name, proxyInput.args))
  /\ event' = Ev("proxy", 0, JAbsent)
  /\ UNCHANGED <<attempts, proxyInput, keyState>>

\* a socket opens: onopen
SocketOpen ==
  /\ \E i \in 1..Len(sockets), h \in Hooks :
       /\ sockets[i] = "connecting"
       /\ Commit(_onOpenWebsocket([Entry EXCEPT !.sockets[i] = "open"], h))
  /\ event' = Ev("open", 0, JAbsent)
  /\ UNCHANGED <<attempts, proxyInput, keyState>>

\* a socket reports an error: onerror (the hook logs)
SocketError ==
  /\ \E i \in 1..Len(sockets) : sockets[i] \in {"connecting", "open"}
  /\ Commit(_onErrorWebsocket(Entry))
  /\ event' = Ev("error", 0, JAbsent)
  /\ UNCHANGED <<attempts, proxyInput, keyState>>

\* a socket closes (after opening, or without ever opening): onclose
SocketClose ==
  /\ \E i \in 1..Len(sockets), h \in Hooks :
       /\ sockets[i] \in {"connecting", "open"}
       /\ Commit(_onCloseWebsocket([Entry EXCEPT !.sockets[i] = "closed"], attempts, h))
  /\ event' = Ev("close", 0, JAbsent)
  /\ UNCHANGED <<attempts, proxyInput, keyState>>

\* the reconnect delay elapses
ReconnectTimer ==
  /\ timers > 0
  /\ Len(sockets) < MaxSockets
  /\ Commit(Reconnect(Entry))
  /\ event' = Ev("timer", 0, JAbsent)
  /\ UNCHANGED <<attempts, proxyInput, keyState>>

\* an open socket delivers a response frame: onmessage
RecvResponse ==
  /\ \E i \in 1..Len(sockets) : sockets[i] = "open"
  /\ \E to \in 1..MaxMessages, r \in Results :
       /\ Commit(_onRequest(Entry, ResponseFrame(to, r)))
       /\ event' = IF to \in DOMAIN waitingCallbacks
                   THEN Ev("hit", to, r)
                   ELSE Ev("miss", to, JAbsent)
  /\ UNCHANGED <<attempts, proxyInput, keyState>>

\* an open socket delivers a ping frame
RecvPing ==
  /\ \E i \in 1..Len(sockets) : sockets[i] = "open"
  /\ CanSend
  /\ \E id \in PingIds :
       /\ Commit(_onRequest(Entry, PingFrame(id)))
       /\ event' = Ev("ping", id, JAbsent)
  /\ UNCHANGED <<attempts, proxyInput, keyState>>

\* an open socket delivers a command of the server
RecvRequest ==
  /\ \E i \in 1..Len(sockets) : sockets[i] = "open"
  /\ \E id \in RequestIds : Commit(_onRequest(Entry, RequestFrame(id)))
  /\ event' = Ev("request", 0, JAbsent)
  /\ UNCHANGED <<attempts, proxyInput, keyState>>

Next ==
  \/ KeyFetched
  \/ KeyFailed
  \/ CallCmd
  \/ CallResponse
  \/ SocketOpen
  \/ SocketError
  \/ SocketClose
  \/ ReconnectTimer
  \/ RecvResponse
  \/ RecvPing
  \/ RecvRequest

\* a session under the default options
Spec == Init /\ [][Next]_vars

\* a session under each reconnect policy: unlimited, disabled, limited
PolicySpec == PolicyInit /\ [][Next]_vars

\* a session whose application sends its commands through the proxy
ProxyNext ==
  \/ KeyFetched
  \/ SocketOpen
  \/ CallProxy

ProxySpec == ProxyInit /\ [][ProxyNext]_vars

\* The event loop runs a timer callback once its delay has elapsed.
FairSpec == Spec /\ WF_vars(ReconnectTimer)

(* ============================== claims ================================ *)

\* ids of the frames handed to the transport so far
WireIds == {wire[j].msg.id : j \in 1..Len(wire)}

\* the messages passed to _send and not yet handed to the transport, in call order
Pending == SelectSeq(calls, LAMBDA c : c.msg.id \notin WireIds)

\* number of sockets created by reconnect timers
ReconnectAttempts == IF Len(sockets) = 0 THEN 0 ELSE Len(sockets) - 1

\* C1: handling an 'opened' event hands to the transport, after what was
\* transmitted before, exactly the messages passed to _send and not yet
\* transmitted (those queued while the transport was not open), in call
\* order, each once, on the socket that opened, and ahead of every message
\* sent later (by the opened hook).
C1_QueueFlushedInOrder ==
  [][event'.type = "open" =>
       LET n == Len(wire)
           p == Pending
       IN /\ Len(wire') >= n + Len(p)
          /\ SubSeq(wire', 1, n) = wire
          /\ \A k \in 1..Len(p) :
               /\ wire'[n + k].msg = p[k].msg
               /\ wire'[n + k].sock = websocket'
               /\ Cardinality({j \in 1..Len(wire') : wire'[j].msg.id = p[k].msg.id}) = 1
          /\ \A j \in (n + Len(p) + 1)..Len(wire') :
               \E i \in (Len(calls) + 1)..Len(calls') : calls'[i].msg = wire'[j].msg
  ]_vars

\* two messages were queued and the open event has just flushed both
C1_Witness ==
  /\ event.type = "open"
  /\ Len(waitingMessages) >= 2
  /\ Len(wire) = Len(waitingMessages)
  /\ \A i \in 1..Len(waitingMessages) :
       waitingMessages[i].processed /\ wire[i].msg = waitingMessages[i].msg

\* C2: with reconnect.attempts = N > 0 the reconnection attempts made or
\* scheduled during the session number at most N.
C2_AtMostNAttempts ==
  attempts > 0 => ReconnectAttempts + timers <= attempts

\* C3: with reconnect.attempts = 0 a closure never schedules a reconnect
\* timer and no socket beyond the initial one is created.
C3_NoReconnectWhenDisabled ==
  attempts = 0 => timers = 0 /\ Len(sockets) <= 1

\* reconnecting is disabled and the initial connection has closed
C3_Witness ==
  /\ attempts = 0
  /\ event.type = "close"
  /\ Len(sockets) = 1
  /\ sockets[1] = "closed"

SettledAsClaimed(r) ==
  IF HasErrorField(r)
  THEN [state |-> "rejected", value |-> ErrorOf(r)]
  ELSE [state |-> "resolved", value |-> r]

\* as amended: rejected when r is truthy and r.error is truthy
SettledAsAmended(r) ==
  IF Truthy(r) /\ HasErrorField(r) /\ Truthy(ErrorOf(r))
  THEN [state |-> "rejected", value |-> ErrorOf(r)]
  ELSE [state |-> "resolved", value |-> r]

\* C6 (as stated): the first response for a command of cmdp rejects the
\* future when the result carries an error field and resolves it with the
\* result otherwise.
C6_RoundTripAsStated ==
  [][\A k \in DOMAIN futures :
       (event' = Ev("hit", k, event'.result) /\ futures[k].state = "pending")
         => futures'[k] = SettledAsClaimed(event'.result)
  ]_vars

\* C6 (amended): the first response for a command of cmdp settles the
\* future: rejected with result.error when the result has a truthy error
\* field, resolved with exactly the result otherwise; nothing else settles
\* it and a settled future never changes.
C6_RoundTrip ==
  [][\A k \in DOMAIN futures :
       /\ (event' = Ev("hit", k, event'.result) /\ futures[k].state = "pending")
            => futures'[k] = SettledAsAmended(event'.result)
       /\ futures'[k] # futures[k]
            => event' = Ev("hit", k, event'.result) /\ futures[k].state = "pending"
  ]_vars

\* a queued command was rejected and a directly transmitted one resolved
C6_Witness ==
  \E k1, k2 \in DOMAIN futures :
    /\ futures[k1].state = "rejected"
    /\ \E i \in 1..Len(waitingMessages) : waitingMessages[i].msg.id = k1
    /\ futures[k2].state = "resolved"
    /\ \A i \in 1..Len(waitingMessages) : waitingMessages[i].msg.id # k2

\* C7: handling a ping frame with id i transmits exactly one frame, the
\* response to i with result 'pong', invokes no hook and leaves the
\* correlation table, the callbacks, the queue and the connection alone.
C7_PingAnsweredWithPong ==
  [][event'.type = "ping" =>
       /\ Len(wire') = Len(wire) + 1
       /\ SubSeq(wire', 1, Len(wire)) = wire
       /\ wire'[Len(wire')].msg.cmd = CMD_RESPONSE
       /\ wire'[Len(wire')].msg.to = event'.id
       /\ wire'[Len(wire')].msg.result = CMD_PONG
       /\ hookCalls' = <<>>
       /\ UNCHANGED <<waitingCallbacks, waitingMessages, cbCalls, futures,
                      sockets, websocket, websocketConnected, timers>>
  ]_vars

\* a ping has just been answered
C7_Witness ==
  /\ event.type = "ping"
  /\ Len(wire) >= 1
  /\ wire[Len(wire)].msg.to = event.id
  /\ wire[Len(wire)].msg.result = CMD_PONG

\* C8: every frame handed to the transport was handed to a socket in
\* state open.
C8_SendOnlyWhenOpen ==
  \A j \in 1..Len(wire) : wire[j].state = "open"

\* a frame was transmitted, the connection closed, and a later message waits
\* in the queue
C8_Witness ==
  /\ Len(wire) >= 1
  /\ websocket > 0
  /\ sockets[websocket] # "open"
  /\ \E i \in 1..Len(waitingMessages) : ~waitingMessages[i].processed

\* C9: the i-th _send call gets identifier i; no two registrations share
\* an identifier, and an entry of the correlation table is the callback of
\* the message with that identifier.
C9_IdsUniqueIncreasing ==
  /\ \A i \in 1..Len(calls) : calls[i].msg.id = FirstMessageId + i - 1
  /\ nextMessageId = FirstMessageId + Len(calls)
  /\ \A k \in DOMAIN waitingCallbacks :
       /\ k \in 1..Len(calls)
       /\ calls[k].cb = waitingCallbacks[k]
  /\ \A i, j \in 1..Len(calls) :
       (i # j /\ calls[i].cb # NoCb /\ calls[j].cb # NoCb) => calls[i].msg.id # calls[j].msg.id

\* a command with a callback and a ping reply were both given identifiers
C9_Witness ==
  /\ Len(calls) >= 2
  /\ \E i, j \in 1..Len(calls) :
       /\ calls[i].cb # NoCb
       /\ calls[j].msg.result = CMD_PONG

\* C10: handling a response frame whose 'to' has no correlation entry
\* changes nothing and invokes no hook or callback.
C10_UnmatchedResponseIsNoOp ==
  [][event'.type = "miss" =>
       /\ hookCalls' = <<>>
       /\ UNCHANGED <<waitingCallbacks, waitingMessages, nextMessageId,
                      nextAttemptId, cbCalls, futures, wire, calls, sockets,
                      websocket, websocketConnected, timers>>
  ]_vars

\* a response arrives for the identifier of a message sent without callback
C10_Witness ==
  /\ event.type = "miss"
  /\ event.id \in 1..Len(calls)
  /\ calls[event.id].cb = NoCb

\* C11: handling an 'error' event invokes the error hook and nothing
\* else: no timer, flag, queue, table, wire or socket changes; and a
\* reconnect timer is only ever scheduled while handling a 'closed' event.
C11_ErrorOnlyInvokesHook ==
  [][/\ event'.type = "error" =>
          /\ hookCalls' = <<"onErrorWebsocket">>
          /\ UNCHANGED <<timers, websocketConnected, waitingMessages,
                         waitingCallbacks, cbCalls, futures, wire, calls,
                         sockets, websocket, nextMessageId, nextAttemptId>>
     /\ timers' > timers => event'.type = "close"
  ]_vars

\* an error is reported on an open connection with a command outstanding
C11_Witness ==
  /\ event.type = "error"
  /\ websocket > 0
  /\ sockets[websocket] = "open"
  /\ websocketConnected
  /\ DOMAIN waitingCallbacks # {}

\* C12: a socket exists only once the wrapper key has been obtained, and
\* is created with that key; after a failed acquisition there is no socket,
\* nothing is transmitted and every message sent stays queued unprocessed.
C12_NoSocketWithoutKey ==
  /\ keyState # "done" =>
       /\ sockets = <<>> /\ websocket = 0 /\ timers = 0 /\ wire = <<>>
       /\ Len(waitingMessages) = Len(calls)
       /\ \A i \in 1..Len(waitingMessages) : ~waitingMessages[i].processed
  /\ \A i \in 1..Len(socketKeys) : socketKeys[i] \in WrapperKeys
  /\ Len(socketKeys) = Len(sockets)

\* the acquisition failed and two messages of the caller wait in the queue
C12_Witness ==
  /\ keyState = "failed"
  /\ Len(waitingMessages) >= 2

\* the params the claim gives for a proxy call with the arguments args
ExpectedParams(args) ==
  IF Len(args) = 0 THEN JsEmptyObject
  ELSE IF Len(args) = 1 /\ args[1].type \in {"object", "array"} THEN args[1]
  ELSE JsArray(args)

\* C13: a call through the proxy issues one cmdp command named after the
\* property, whose params are {} for no argument, the argument itself for
\* one non-null object, and the array of the arguments otherwise.
C13_ProxyShapesParams ==
  [][event'.type = "proxy" =>
       /\ Len(calls') = Len(calls) + 1
       /\ SubSeq(calls', 1, Len(calls)) = calls
       /\ LET c == calls'[Len(calls')]
          IN /\ c.cb = PromiseCb
             /\ c.msg.cmd = proxyInput.name
             /\ c.msg.params = ExpectedParams(proxyInput.args)
             /\ c.msg.id \in DOMAIN futures'
             /\ futures'[c.msg.id].state = "pending"
  ]_vars

\* the proxy was called with null as its single argument
C13_Witness ==
  /\ event.type = "proxy"
  /\ proxyInput.args = <<JsNull>>
  /\ calls[Len(calls)].msg.params = JsArray(<<JsNull>>)

\* ids of the messages in the queue
QueueIds == {waitingMessages[i].msg.id : i \in 1..Len(waitingMessages)}

\* how often the message id occurs among the frames w
TimesSent(w, id) == Cardinality({j \in 1..Len(w) : w[j].msg.id = id})

\* C14: every message passed to _send is handed to the transport at most
\* once: no id is on the wire twice, a queue entry is on the wire iff it is
\* marked processed, queue entries are kept, a queued message goes out only
\* while an open event is handled, and a message that went out directly
\* (not from the queue) is not in the queue.
C14_TransmittedAtMostOnce ==
  [][/\ \A id \in WireIds' : TimesSent(wire', id) = 1
     /\ \A i \in 1..Len(waitingMessages') :
          waitingMessages'[i].processed <=> waitingMessages'[i].msg.id \in WireIds'
     /\ Len(waitingMessages') >= Len(waitingMessages)
     /\ \A i \in 1..Len(waitingMessages) :
          waitingMessages'[i].msg = waitingMessages[i].msg
     /\ SubSeq(wire', 1, Len(wire)) = wire
     /\ \A j \in (Len(wire) + 1)..Len(wire') :
          IF wire'[j].msg.id \in QueueIds'
          THEN event'.type = "open" /\ wire'[j].msg.id \in QueueIds
          ELSE \E i \in (Len(calls) + 1)..Len(calls') : calls'[i].msg = wire'[j].msg
     /\ \A i \in 1..Len(calls') :
          TimesSent(wire', calls'[i].msg.id) + Cardinality({k \in 1..Len(waitingMessages') :
               /\ waitingMessages'[k].msg.id = calls'[i].msg.id
               /\ ~waitingMessages'[k].processed}) = 1
  ]_vars

\* the second connection has opened; the queue holds an entry flushed on
\* the first connection, and a message was also sent directly
C14_Witness ==
  /\ event.type = "open"
  /\ Len(sockets) = 2
  /\ \E i \in 1..Len(waitingMessages), j \in 1..Len(wire) :
       /\ waitingMessages[i].processed
       /\ wire[j].msg = waitingMessages[i].msg
       /\ wire[j].sock = 1
  /\ \E j \in 1..Len(wire) : wire[j].msg.id \notin QueueIds

\* C15: after k reconnection attempts the attempt counter equals its
\* initial value plus k.
C15_CounterCountsAttempts ==
  nextAttemptId = FirstAttemptId + ReconnectAttempts

\* C16: at most one socket of the session is connecting or open, and none
\* while a reconnect timer is armed; every socket but the newest is closed;
\* at most one timer is armed.
C16_AtMostOneLiveConnection ==
  /\ Cardinality({i \in 1..Len(sockets) : sockets[i] # "closed"}) + timers <= 1
  /\ \A i \in 1..Len(sockets) : i < Len(sockets) => sockets[i] = "closed"
  /\ websocket = Len(sockets)

\* the first connection has closed and its replacement is open
C16_Witness ==
  /\ Len(sockets) = 2
  /\ sockets[1] = "closed"
  /\ sockets[2] = "open"
  /\ websocketConnected

\* C18: the wrapper key is fetched once per session and never again, not
\* after a failure and not by a reconnect: every socket, the replacements
\* included, is opened with the key the one fetch returned.
C18_KeyFetchedOnce ==
  /\ fetches = 1
  /\ keyState # "done" => wrapperKey = NoKey
  /\ \A i \in 1..Len(socketKeys) :
       socketKeys[i] = wrapperKey /\ wrapperKey \in WrapperKeys

\* a reconnect timer has just created the second socket
C18_Witness ==
  /\ event.type = "timer"
  /\ Len(socketKeys) = 2
  /\ socketKeys[2] = socketKeys[1]

\* C19: while a 'closed' event is handled the connected flag is cleared
\* before the hook runs: the hook is called exactly once, nothing is handed
\* to the transport, and whatever the hook sends is appended to the queue
\* unprocessed; this under every reconnect policy.
C19_ClosedMarksNotOpenFirst ==
  [][event'.type = "close" =>
       /\ hookCalls' = <<"onCloseWebsocket">>
       /\ ~websocketConnected'
       /\ wire' = wire
       /\ Len(waitingMessages') - Len(waitingMessages) = Len(calls') - Len(calls)
       /\ \A k \in 1..(Len(calls') - Len(calls)) :
            waitingMessages'[Len(waitingMessages) + k] =
              [msg |-> calls'[Len(calls) + k].msg, processed |-> FALSE]
  ]_vars

\* reconnecting is disabled; the connection that carried the first command
\* has closed and the closed hook has sent a second one, which is queued
C19_Witness ==
  /\ attempts = 0
  /\ event.type = "close"
  /\ timers = 0
  /\ Len(wire) = 1
  /\ Len(calls) = 2
  /\ waitingMessages = <<[msg |-> calls[2].msg, processed |-> FALSE]>>

\* C20: close, reconnect-timer and open events leave the callback table,
\* the callback invocation counts and the futures as they are; a pending
\* future is settled only while a response frame naming its command is
\* handled.
C20_ClosureKeepsCallbacks ==
  [][/\ event'.type \in {"close", "timer", "open"} =>
          UNCHANGED <<waitingCallbacks, cbCalls, futures>>
     /\ \A id \in DOMAIN futures :
          futures[id].state = "pending" /\ futures'[id].state # "pending" =>
            event'.type = "hit" /\ event'.id = id
  ]_vars

\* a command sent on the first connection is answered on the second
C20_Witness ==
  /\ event.type = "hit"
  /\ websocket = 2
  /\ event.id \in DOMAIN futures
  /\ futures[event.id].state # "pending"
  /\ \E j \in 1..Len(wire) : wire[j].msg.id = event.id /\ wire[j].sock = 1

\* positions on the wire w of the frames whose message is in the queue q
QueuedPositions(w, q) ==
  {j \in 1..Len(w) : \E i \in 1..Len(q) : q[i].msg.id = w[j].msg.id}

\* C21: while an 'opened' event is handled the flag is set and the queue
\* is flushed before the hook runs: the hook is called once, afterwards the
\* flag is set and every queue entry is processed, and each message the hook
\* sends is not put in the queue but handed to the open socket, later on
\* the wire than every message of the queue.
C21_OpenedFlushesBeforeHook ==
  [][event'.type = "open" =>
       /\ hookCalls' = <<"onOpenWebsocket">>
       /\ websocketConnected'
       /\ Len(waitingMessages') = Len(waitingMessages)
       /\ \A i \in 1..Len(waitingMessages') : waitingMessages'[i].processed
       /\ \A i \in (Len(calls) + 1)..Len(calls') :
            \E j \in (Len(wire) + 1)..Len(wire') :
              /\ wire'[j].msg = calls'[i].msg
              /\ wire'[j].sock = websocket'
              /\ wire'[j].state = "open"
              /\ \A k \in QueuedPositions(wire', waitingMessages') : k < j
  ]_vars

\* the first connection has opened: the queued message went out first and
\* the message sent by the opened hook went out after it, without being queued
C21_Witness ==
  /\ event.type = "open"
  /\ Len(sockets) = 1
  /\ Len(calls) = 2
  /\ Len(waitingMessages) = 1
  /\ waitingMessages[1] = [msg |-> calls[1].msg, processed |-> TRUE]
  /\ Len(wire) = 2
  /\ wire[1].msg = calls[1].msg
  /\ wire[2].msg = calls[2].msg
  /\ wire[2].state = "open"

====
